---- MODULE Spec2Model ----
(***************************************************************************)
(* Model of backend/models/Content.js: the Content record model and the    *)
(* statements it sends through the module-level database handle `db`.      *)
(*                                                                         *)
(* Every value that crosses the handle is text: a sequence of character    *)
(* codes.  Digits 1..9 are the codes 1..9, so the text of id k is <<k>>.   *)
(*                                                                         *)
(* The callback of forEach in Content.create contains `await` although it  *)
(* is not declared async.  The model reads the callback as an async arrow  *)
(* function (the smallest reading under which the file loads): forEach     *)
(* calls it once per entry, each call sends its join INSERT and returns a  *)
(* promise that nothing awaits.                                            *)
(***************************************************************************)
EXTENDS Integers, Sequences, FiniteSets, TLC

VARIABLES
    db,         \* the session behind the handle: the rows it sees (parents,
                \* joins), the rows as of the open transaction's BEGIN
                \* (snapParents, snapJoins), inTxn, and the id sequence nextId
    queue,      \* statements handed to db.query and not yet answered
    call,       \* per call: pc (where it is suspended), op (operation and
                \* arguments), ret (rows it hands back), outcome, newId (id of
                \* modelNameObject, 0: none), issued (kinds of the statements
                \* it sent, in order), failed (kinds the handle rejected),
                \* absent (its SELECT by key matched no row), dirty (it read
                \* the parent row of a create whose join INSERTs were still
                \* outstanding)
    fails       \* statement failures so far

vars == <<db, queue, call, fails>>

----------------------------------------------------------------------------
(* Bounds *)

MaxFails == 2

MaxAssoc == 2

Calls == {"c1", "c2"}

----------------------------------------------------------------------------
(* Text values *)

Null == <<0>>

IdText(k) == <<k>>

alice == <<21>>

bob == <<22>>

Usernames == {alice, bob}

\* JSON text of a signing list, as bound to the contract_signed column
RECURSIVE JsonText(_)
JsonText(list) ==
    IF list = <<>> THEN <<5>>
    ELSE <<5>> \o Head(list) \o JsonText(Tail(list))

----------------------------------------------------------------------------
(* Projections and field mapping *)

Columns == {"title", "date_published", "status", "contract_signed"}

\* a private column added to the general projection
QUERY_GENERAL_PROPERTIES_WithStatus(id, row) ==
    [id |-> IdText(id), title |-> row["title"],
     datePublished |-> row["date_published"], status |-> row["status"]]

QUERY_GENERAL_PROPERTIES(id, row) ==
    [id |-> IdText(id), title |-> row["title"],
     datePublished |-> row["date_published"]]

QUERY_PRIVATE_PROPERTIES(id, row) ==
    [id |-> IdText(id), title |-> row["title"],
     datePublished |-> row["date_published"],
     status |-> row["status"], contractSigned |-> row["contract_signed"]]

JSON_SQL_SET_MAPPING ==
    [datePublished |-> "date_published", contractSigned |-> "contract_signed"]

ColumnOf(field, mapping) ==
    IF field \in DOMAIN mapping THEN mapping[field] ELSE field

\* a record object is the sequence of its <<key, value>> pairs in key order
Keys(rec) == {rec[i][1] : i \in DOMAIN rec}

ValueOf(rec, key) == rec[CHOOSE i \in DOMAIN rec : rec[i][1] = key][2]

\* the value as node-postgres binds it
BindText(key, value) ==
    IF key = "contractSigned" THEN JsonText(value) ELSE value

----------------------------------------------------------------------------
(* Query builders (helpers/sqlQueryingHelper) *)

sqlCreateQueryBuilder(rec, mapping) ==
    [cols |-> [i \in DOMAIN rec |-> ColumnOf(rec[i][1], mapping)],
     idx |-> [i \in DOMAIN rec |-> i],
     params |-> [i \in DOMAIN rec |-> BindText(rec[i][1], rec[i][2])]]

sqlUpdateQueryBuilder(rec, mapping) ==
    [cols |-> [i \in DOMAIN rec |-> ColumnOf(rec[i][1], mapping)],
     idx |-> [i \in DOMAIN rec |-> i],
     params |-> [i \in DOMAIN rec |-> BindText(rec[i][1], rec[i][2])]]

----------------------------------------------------------------------------
(* Statements *)

\* A statement as db.query receives it: the columns it writes with the
\* placeholder each is set from, the columns of its WHERE with theirs, and
\* the parameter list.
Stmt(c, kind, cols, idx, whereCols, whereIdx, params) ==
    [call |-> c, kind |-> kind, cols |-> cols, idx |-> idx,
     whereCols |-> whereCols, whereIdx |-> whereIdx, params |-> params]

Control(c, kind) == Stmt(c, kind, <<>>, <<>>, <<>>, <<>>, <<>>)

Placeholders(s) ==
    {s.idx[i] : i \in DOMAIN s.idx} \cup {s.whereIdx[i] : i \in DOMAIN s.whereIdx}

----------------------------------------------------------------------------
(* Database handle (database/db): one session, statements answered in the *)
(* order they were handed in; transaction state is implicit in the call   *)
(* sequence.                                                               *)

\* the server rejects a statement whose placeholders are not $1..$n for the
\* n parameters bound, and an UPDATE with an empty SET list
WellFormed(s) ==
    /\ Placeholders(s) = 1..Len(s.params)
    /\ s.kind = "UPDATE" => s.cols # <<>>

Durable(d) ==
    IF d.inTxn THEN [parents |-> d.snapParents, joins |-> d.snapJoins]
    ELSE [parents |-> d.parents, joins |-> d.joins]

\* outside a transaction every statement commits by itself
Settle(d) ==
    IF d.inTxn THEN d
    ELSE [d EXCEPT !.snapParents = d.parents, !.snapJoins = d.joins]

DbBegin(d) ==
    IF d.inTxn THEN d
    ELSE [d EXCEPT !.inTxn = TRUE, !.snapParents = d.parents,
                   !.snapJoins = d.joins]

DbCommit(d) == Settle([d EXCEPT !.inTxn = FALSE])

DbRollback(d) ==
    IF d.inTxn
    THEN [d EXCEPT !.inTxn = FALSE, !.parents = d.snapParents,
                   !.joins = d.snapJoins]
    ELSE d

Written(s, col) == \E i \in DOMAIN s.cols : s.cols[i] = col

NewValue(s, col) ==
    s.params[s.idx[CHOOSE i \in DOMAIN s.cols : s.cols[i] = col]]

InsertedRow(s) ==
    [col \in Columns |-> IF Written(s, col) THEN NewValue(s, col) ELSE Null]

DbInsert(d, s) ==
    Settle([d EXCEPT !.parents = (d.nextId :> InsertedRow(s)) @@ d.parents,
                     !.nextId = d.nextId + 1])

JoinRow(s) ==
    [user_id |-> NewValue(s, "user_id"),
     content_id |-> NewValue(s, "content_id")]

DbInsertJoin(d, s) == Settle([d EXCEPT !.joins = d.joins \cup {JoinRow(s)}])

\* ids of the parent rows a WHERE id = $k matches
MatchIds(d, s) ==
    {id \in DOMAIN d.parents :
        \A i \in DOMAIN s.whereCols :
            s.whereCols[i] = "id" => IdText(id) = s.params[s.whereIdx[i]]}

UpdatedRow(row, s) ==
    [col \in Columns |-> IF Written(s, col) THEN NewValue(s, col) ELSE row[col]]

DbUpdate(d, s) ==
    Settle([d EXCEPT !.parents =
        [id \in DOMAIN d.parents |->
            IF id \in MatchIds(d, s) THEN UpdatedRow(d.parents[id], s)
            ELSE d.parents[id]]])

MatchJoins(d, s) ==
    {j \in d.joins :
        \A i \in DOMAIN s.whereCols : j[s.whereCols[i]] = s.params[s.whereIdx[i]]}

DbDeleteJoin(d, s) == Settle([d EXCEPT !.joins = d.joins \ MatchJoins(d, s)])

----------------------------------------------------------------------------
(* Calls *)

\* op.query is the caller's filter object as passed, op.queryObject the same
\* object as the call has left it
NoOp == [name |-> "none", pk |-> Null, rec |-> <<>>, ntom |-> <<"null">>,
         username |-> Null, query |-> <<"undefined">>,
         queryObject |-> <<"undefined">>]

IdleCall ==
    [pc |-> "idle", op |-> NoOp, ret |-> <<>>, outcome |-> "none", newId |-> 0,
     issued |-> <<>>, failed |-> {}, absent |-> FALSE, dirty |-> FALSE]

SeedRow(title, date) ==
    [col \in Columns |-> CASE col = "title" -> title
                           [] col = "date_published" -> date
                           [] col = "status" -> <<30>>
                           [] OTHER -> Null]

SeedParents == (1 :> SeedRow(<<11, 12>>, <<1>>)) @@ (2 :> SeedRow(<<12>>, <<3>>))

SeedJoins ==
    {[user_id |-> alice, content_id |-> IdText(1)],
     [user_id |-> bob, content_id |-> IdText(1)],
     [user_id |-> alice, content_id |-> IdText(2)]}

\* the seeded relations: contents 1 and 2 with their contents_users_join rows
SeedDb ==
    [parents |-> SeedParents, joins |-> SeedJoins,
     snapParents |-> SeedParents, snapJoins |-> SeedJoins,
     inTxn |-> FALSE, nextId |-> 3]

Init ==
    /\ db = SeedDb
    /\ queue = <<>>
    /\ call = [c \in Calls |-> IdleCall]
    /\ fails = 0

\* the call whose statement the handle answers next
Answering(c, kind) ==
    /\ queue # <<>>
    /\ Head(queue).call = c
    /\ Head(queue).kind = kind

\* the handle answers a statement: ok, or an error (always an error for a
\* statement the server cannot run)
Answer(s, ok) ==
    /\ ok => WellFormed(s)
    /\ ~ok => (fails < MaxFails \/ ~WellFormed(s))
    /\ fails' = IF ~ok /\ WellFormed(s) THEN fails + 1 ELSE fails

Kinds(stmts) == [i \in DOMAIN stmts |-> stmts[i].kind]

\* call c, in state cs, hands stmts to db.query
Sent(cs, stmts) == [cs EXCEPT !.issued = @ \o Kinds(stmts)]

\* the error swallowed: every end hands back what there is
Finished_Swallow(cs, how, rows) ==
    [cs EXCEPT !.pc = "done", !.outcome = "returned", !.ret = rows]

Finished(cs, how, rows) ==
    [cs EXCEPT !.pc = "done", !.outcome = how, !.ret = rows]

Rejected(cs, kind) == [cs EXCEPT !.failed = @ \cup {kind}]

----------------------------------------------------------------------------
(* Content.create *)

Roster(n) == [i \in 1..n |-> IF i % 2 = 1 THEN alice ELSE bob]

SigningLists == {Roster(n) : n \in 0..MaxAssoc}

\* newRecordObject: with or without a contractSigned list
CreateRecords ==
    {<< <<"title", <<11>> >> >>}
    \cup {<< <<"title", <<11>> >>, <<"contractSigned", l>> >> : l \in SigningLists}

\* the second argument: left out, null, or an association list
NtomArgs(rec) ==
    {<<"undefined">>, <<"null">>}
    \cup {<<"list", IF "contractSigned" \in Keys(rec)
                    THEN ValueOf(rec, "contractSigned") ELSE Roster(1)>>}

\* ntomJoin = [] : the default replaces a left-out argument only
DefaultNtom(arg) == IF arg[1] = "undefined" THEN <<"list", <<>> >> ELSE arg

\* if(ntomJoin): an array, even an empty one, is truthy
Truthy(ntomJoin) == ntomJoin[1] = "list"

ParentInsert(c, rec) ==
    LET b == sqlCreateQueryBuilder(rec, JSON_SQL_SET_MAPPING)
    IN  Stmt(c, "INSERT", b.cols, b.idx, <<>>, <<>>, b.params)

JOIN_MODEL_KEY == <<"user_id", "content_id">>

JOIN_MODEL_IDX == <<1, 2>>

JoinParams(rec, entry) == <<ValueOf(rec, "title"), entry>>

JoinInsert(c, rec, entry) ==
    Stmt(c, "INSERT_JOIN", JOIN_MODEL_KEY, JOIN_MODEL_IDX, <<>>, <<>>,
         JoinParams(rec, entry))

\* forEach: every callback runs up to its db.query before forEach returns
ForEachJoin(c, rec) ==
    LET list == ValueOf(rec, "contractSigned")
    IN  [i \in DOMAIN list |-> JoinInsert(c, rec, list[i])]

\* catch(error): await db.query('ROLLBACK')
Caught(cs, c) ==
    [Sent(cs, <<Control(c, "ROLLBACK")>>) EXCEPT !.pc = "rollback"]

CreateStart(c) ==
    /\ call[c].pc = "idle"
    /\ \E rec \in CreateRecords : \E arg \in NtomArgs(rec) :
        /\ call' = [call EXCEPT ![c] =
              [Sent(@, <<Control(c, "BEGIN")>>) EXCEPT
                  !.pc = "begin",
                  !.op = [NoOp EXCEPT !.name = "create", !.rec = rec,
                                      !.ntom = arg]]]
        /\ queue' = Append(queue, Control(c, "BEGIN"))
    /\ UNCHANGED <<db, fails>>

CreateBeginAck(c) ==
    /\ Answering(c, "BEGIN")
    /\ \E ok \in BOOLEAN :
        /\ Answer(Head(queue), ok)
        /\ IF ok
           THEN LET ins == ParentInsert(c, call[c].op.rec)
                IN  /\ db' = DbBegin(db)
                    /\ queue' = Append(Tail(queue), ins)
                    /\ call' = [call EXCEPT ![c] =
                          [Sent(@, <<ins>>) EXCEPT !.pc = "insert"]]
           ELSE /\ db' = db
                /\ queue' = Append(Tail(queue), Control(c, "ROLLBACK"))
                /\ call' = [call EXCEPT ![c] = Caught(Rejected(@, "BEGIN"), c)]

\* the statements create sends once the parent row is back
AfterInsert(c, rec, ntomJoin) ==
    IF Truthy(ntomJoin)
    THEN IF "contractSigned" \in Keys(rec)
         THEN ForEachJoin(c, rec) \o <<Control(c, "COMMIT")>>
         ELSE <<Control(c, "ROLLBACK")>>     \* TypeError: forEach of undefined
    ELSE <<Control(c, "COMMIT")>>

CreateInsertAck(c) ==
    /\ Answering(c, "INSERT")
    /\ \E ok \in BOOLEAN :
        /\ Answer(Head(queue), ok)
        /\ IF ok
           THEN LET id == db.nextId
                    d == DbInsert(db, Head(queue))
                    next == AfterInsert(c, call[c].op.rec,
                                        DefaultNtom(call[c].op.ntom))
                IN  /\ db' = d
                    /\ queue' = Tail(queue) \o next
                    /\ call' = [call EXCEPT ![c] =
                          [Sent(@, next) EXCEPT
                              !.pc = IF next[Len(next)].kind = "COMMIT"
                                     THEN "commit" ELSE "rollback",
                              !.newId = id,
                              !.ret = <<QUERY_GENERAL_PROPERTIES(id, d.parents[id])>>]]
           ELSE /\ db' = db
                /\ queue' = Append(Tail(queue), Control(c, "ROLLBACK"))
                /\ call' = [call EXCEPT ![c] = Caught(Rejected(@, "INSERT"), c)]

\* the promise of a forEach callback settles; nothing awaits it
CreateJoinAck(c) ==
    /\ Answering(c, "INSERT_JOIN")
    /\ queue' = Tail(queue)
    /\ \E ok \in BOOLEAN :
        /\ Answer(Head(queue), ok)
        /\ IF ok
           THEN /\ db' = DbInsertJoin(db, Head(queue))
                /\ call' = call
           ELSE /\ db' = db
                /\ call' = [call EXCEPT ![c] = Rejected(@, "INSERT_JOIN")]

CreateCommitAck(c) ==
    /\ Answering(c, "COMMIT")
    /\ \E ok \in BOOLEAN :
        /\ Answer(Head(queue), ok)
        /\ IF ok
           THEN /\ db' = DbCommit(db)
                /\ queue' = Tail(queue)
                /\ call' = [call EXCEPT ![c] = Finished(@, "returned", @.ret)]
           ELSE /\ db' = db
                /\ queue' = Append(Tail(queue), Control(c, "ROLLBACK"))
                /\ call' = [call EXCEPT ![c] = Caught(Rejected(@, "COMMIT"), c)]

\* the catch block after its ROLLBACK: throw new ExpressError(499, ...)
CreateRollbackAck(c) ==
    /\ Answering(c, "ROLLBACK")
    /\ queue' = Tail(queue)
    /\ \E ok \in BOOLEAN :
        /\ Answer(Head(queue), ok)
        /\ IF ok
           THEN /\ db' = DbRollback(db)
                /\ call' = [call EXCEPT ![c] =
                      Finished(@, "ERR_MULT_NEW_REC_DBFAIL", <<>>)]
           ELSE /\ db' = db
                /\ call' = [call EXCEPT ![c] =
                      Finished(Rejected(@, "ROLLBACK"), "DbError", <<>>)]

----------------------------------------------------------------------------
(* Content.getByPK, Content.getByPKPrivate *)

Pks == {IdText(k) : k \in 1..3}

SelectByPK(c, kind, pk) == Stmt(c, kind, <<>>, <<>>, <<"id">>, <<1>>, <<pk>>)

\* one of the rows read is the parent row of a create call that still has a
\* join INSERT outstanding
PartialRead(d, ids) ==
    \E c \in Calls :
        /\ call[c].newId \in ids
        /\ \E i \in DOMAIN queue :
              queue[i].call = c /\ queue[i].kind = "INSERT_JOIN"

GetByPKStart(c) ==
    /\ call[c].pc = "idle"
    /\ \E pk \in Pks :
        /\ call' = [call EXCEPT ![c] =
              [Sent(@, <<SelectByPK(c, "SELECT_PK", pk)>>) EXCEPT
                  !.pc = "select",
                  !.op = [NoOp EXCEPT !.name = "getByPK", !.pk = pk]]]
        /\ queue' = Append(queue, SelectByPK(c, "SELECT_PK", pk))
    /\ UNCHANGED <<db, fails>>

\* the check of result.rows[0] left out
FoundOrThrow_NoCheck(cs, ids, rows) == Finished(cs, "returned", rows)

\* result.rows[0], then the NotFoundError when there is none
FoundOrThrow(cs, ids, rows) ==
    IF ids = {}
    THEN [Finished(cs, "NotFound", <<>>) EXCEPT !.absent = TRUE]
    ELSE [Finished(cs, "returned", rows) EXCEPT !.dirty = PartialRead(db, ids)]

GetByPKAck(c) ==
    /\ Answering(c, "SELECT_PK")
    /\ call[c].op.name = "getByPK"
    /\ queue' = Tail(queue)
    /\ db' = db
    /\ \E ok \in BOOLEAN :
        /\ Answer(Head(queue), ok)
        /\ IF ok
           THEN LET ids == MatchIds(db, Head(queue))
                    rows == IF ids = {} THEN <<>>
                            ELSE LET id == CHOOSE i \in ids : TRUE
                                 IN  <<QUERY_GENERAL_PROPERTIES(id, db.parents[id])>>
                IN  call' = [call EXCEPT ![c] = FoundOrThrow(@, ids, rows)]
           ELSE call' = [call EXCEPT ![c] =
                    Finished(Rejected(@, "SELECT_PK"), "DbError", <<>>)]

GetByPKPrivateStart(c) ==
    /\ call[c].pc = "idle"
    /\ \E pk \in Pks :
        /\ call' = [call EXCEPT ![c] =
              [Sent(@, <<SelectByPK(c, "SELECT_PK_PRIVATE", pk)>>) EXCEPT
                  !.pc = "select",
                  !.op = [NoOp EXCEPT !.name = "getByPKPrivate", !.pk = pk]]]
        /\ queue' = Append(queue, SelectByPK(c, "SELECT_PK_PRIVATE", pk))
    /\ UNCHANGED <<db, fails>>

GetByPKPrivateAck(c) ==
    /\ Answering(c, "SELECT_PK_PRIVATE")
    /\ queue' = Tail(queue)
    /\ db' = db
    /\ \E ok \in BOOLEAN :
        /\ Answer(Head(queue), ok)
        /\ IF ok
           THEN LET ids == MatchIds(db, Head(queue))
                    rows == IF ids = {} THEN <<>>
                            ELSE LET id == CHOOSE i \in ids : TRUE
                                 IN  <<QUERY_PRIVATE_PROPERTIES(id, db.parents[id])>>
                IN  call' = [call EXCEPT ![c] = FoundOrThrow(@, ids, rows)]
           ELSE call' = [call EXCEPT ![c] =
                    Finished(Rejected(@, "SELECT_PK_PRIVATE"), "DbError", <<>>)]

----------------------------------------------------------------------------
(* Content.update *)

\* updateRecordObject: the fields to overwrite, in key order
UpdateRecords ==
    {<<>>,
     << <<"title", <<12>> >> >>,
     << <<"title", <<13>> >> >>,
     << <<"status", <<31>> >> >>,
     << <<"datePublished", <<2>> >> >>,
     << <<"title", <<12>> >>, <<"status", <<31>> >> >>}

\* the index of the last SET placeholder taken for the one of the key
pkParameterIndex_OffByOne(setParameters) == Len(setParameters)

pkParameterIndex(setParameters) == Len(setParameters) + 1

\* the key bound first, ahead of the SET values
updateQuerySQL_KeyFirst(c, pk, rec) ==
    LET b == sqlUpdateQueryBuilder(rec, JSON_SQL_SET_MAPPING)
    IN  Stmt(c, "UPDATE", b.cols, b.idx, <<"id">>,
             <<pkParameterIndex(b.params)>>, <<pk>> \o b.params)

updateQuerySQL(c, pk, rec) ==
    LET b == sqlUpdateQueryBuilder(rec, JSON_SQL_SET_MAPPING)
    IN  Stmt(c, "UPDATE", b.cols, b.idx, <<"id">>,
             <<pkParameterIndex(b.params)>>, b.params \o <<pk>>)

UpdateStart(c) ==
    /\ call[c].pc = "idle"
    /\ \E pk \in Pks : \E rec \in UpdateRecords :
        /\ call' = [call EXCEPT ![c] =
              [Sent(@, <<SelectByPK(c, "SELECT_PK", pk)>>) EXCEPT
                  !.pc = "exists",
                  !.op = [NoOp EXCEPT !.name = "update", !.pk = pk,
                                      !.rec = rec]]]
        /\ queue' = Append(queue, SelectByPK(c, "SELECT_PK", pk))
    /\ UNCHANGED <<db, fails>>

\* await this.getByPK(pk), then the UPDATE is built and sent
UpdateExistsAck(c) ==
    /\ Answering(c, "SELECT_PK")
    /\ call[c].op.name = "update"
    /\ db' = db
    /\ \E ok \in BOOLEAN :
        /\ Answer(Head(queue), ok)
        /\ IF ok
           THEN LET ids == MatchIds(db, Head(queue))
                    upd == updateQuerySQL(c, call[c].op.pk, call[c].op.rec)
                IN  IF ids = {}
                    THEN /\ queue' = Tail(queue)
                         /\ call' = [call EXCEPT ![c] = FoundOrThrow(@, ids, <<>>)]
                    ELSE /\ queue' = Append(Tail(queue), upd)
                         /\ call' = [call EXCEPT ![c] =
                               [Sent(@, <<upd>>) EXCEPT
                                   !.pc = "update",
                                   !.dirty = PartialRead(db, ids)]]
           ELSE /\ queue' = Tail(queue)
                /\ call' = [call EXCEPT ![c] =
                      Finished(Rejected(@, "SELECT_PK"), "DbError", <<>>)]

\* result.rows[0] of the UPDATE is returned as it is, also when undefined
UpdateAck(c) ==
    /\ Answering(c, "UPDATE")
    /\ queue' = Tail(queue)
    /\ \E ok \in BOOLEAN :
        /\ Answer(Head(queue), ok)
        /\ IF ok
           THEN LET ids == MatchIds(db, Head(queue))
                    d == DbUpdate(db, Head(queue))
                    rows == IF ids = {} THEN <<>>
                            ELSE LET id == CHOOSE i \in ids : TRUE
                                 IN  <<QUERY_GENERAL_PROPERTIES(id, d.parents[id])>>
                IN  /\ db' = d
                    /\ call' = [call EXCEPT ![c] = Finished(@, "returned", rows)]
           ELSE /\ db' = db
                /\ call' = [call EXCEPT ![c] =
                      Finished(Rejected(@, "UPDATE"), "DbError", <<>>)]

----------------------------------------------------------------------------
(* Content.delete *)

DeleteParams(pk, username) == <<pk, username>>

\* the user_id predicate left out of the WHERE
DeleteJoin_ByContent(c, pk, username) ==
    Stmt(c, "DELETE_JOIN", <<>>, <<>>, <<"content_id">>, <<1>>, <<pk>>)

DeleteJoin(c, pk, username) ==
    Stmt(c, "DELETE_JOIN", <<>>, <<>>, <<"content_id", "user_id">>, <<1, 2>>,
         DeleteParams(pk, username))

DeleteStart(c) ==
    /\ call[c].pc = "idle"
    /\ \E pk \in Pks : \E username \in Usernames :
        /\ call' = [call EXCEPT ![c] =
              [Sent(@, <<DeleteJoin(c, pk, username)>>) EXCEPT
                  !.pc = "delete",
                  !.op = [NoOp EXCEPT !.name = "delete", !.pk = pk,
                                      !.username = username]]]
        /\ queue' = Append(queue, DeleteJoin(c, pk, username))
    /\ UNCHANGED <<db, fails>>

\* with no row back, the message of the NotFoundError reads `fk`, which no
\* scope defines: evaluating it throws a ReferenceError
DeleteAck(c) ==
    /\ Answering(c, "DELETE_JOIN")
    /\ queue' = Tail(queue)
    /\ \E ok \in BOOLEAN :
        /\ Answer(Head(queue), ok)
        /\ IF ok
           THEN /\ db' = DbDeleteJoin(db, Head(queue))
                /\ call' = [call EXCEPT ![c] =
                      IF MatchJoins(db, Head(queue)) = {}
                      THEN Finished(@, "ReferenceError", <<>>)
                      ELSE Finished(@, "returned", <<>>)]
           ELSE /\ db' = db
                /\ call' = [call EXCEPT ![c] =
                      Finished(Rejected(@, "DELETE_JOIN"), "DbError", <<>>)]

----------------------------------------------------------------------------
(* Content.getAll *)

Percent == 37

Underscore == 95

\* letters above 100 are the capitals of the letters below
Fold(ch) == IF ch > 100 THEN ch - 100 ELSE ch

\* text ILIKE pattern
RECURSIVE ILike(_, _)
ILike(text, pattern) ==
    IF pattern = <<>> THEN text = <<>>
    ELSE IF Head(pattern) = Percent
         THEN \/ ILike(text, Tail(pattern))
              \/ text # <<>> /\ ILike(Tail(text), pattern)
         ELSE /\ text # <<>>
              /\ Head(pattern) = Underscore \/ Fold(Head(pattern)) = Fold(Head(text))
              /\ ILike(Tail(text), Tail(pattern))

JSON_SQL_QUERY_MAPPING == [title |-> "title ILIKE"]

\* the filter objects callers pass: none, {}, {title: t} (t may be ''), and
\* a filter on a column the mapping does not name
QueryObjects ==
    {<<"undefined">>, <<"object", <<>> >>}
    \cup {<<"object", << <<"title", t>> >> >> : t \in {<<>>, <<11>>, <<112>>}}
    \cup {<<"object", << <<"status", <<30>> >> >> >>}

\* the guard on queryObject.title left out: a filter without title gets the
\* title `%undefined%`
WrapTitle_NoGuard(rec) ==
    IF "title" \in Keys(rec)
    THEN [i \in DOMAIN rec |->
            IF rec[i][1] = "title"
            THEN <<"title", <<Percent>> \o rec[i][2] \o <<Percent>> >>
            ELSE rec[i]]
    ELSE Append(rec, <<"title", <<Percent, 99, Percent>> >>)

\* if(queryObject.title) queryObject.title = `%${queryObject.title}%`
WrapTitle(rec) ==
    [i \in DOMAIN rec |->
        IF rec[i][1] = "title" /\ rec[i][2] # <<>>
        THEN <<"title", <<Percent>> \o rec[i][2] \o <<Percent>> >>
        ELSE rec[i]]

sqlFilterQueryBuilder(rec, mapping) ==
    [whereCols |-> [i \in DOMAIN rec |->
                       IF rec[i][1] \in DOMAIN mapping THEN mapping[rec[i][1]]
                       ELSE rec[i][1]],
     whereIdx |-> [i \in DOMAIN rec |-> i],
     params |-> [i \in DOMAIN rec |-> rec[i][2]]]

SelectAll(c, queryObject) ==
    IF queryObject[1] = "object"
    THEN LET b == sqlFilterQueryBuilder(queryObject[2], JSON_SQL_QUERY_MAPPING)
         IN  Stmt(c, "SELECT_ALL", <<>>, <<>>, b.whereCols, b.whereIdx, b.params)
    ELSE Stmt(c, "SELECT_ALL", <<>>, <<>>, <<>>, <<>>, <<>>)

\* ids of the parent rows the WHERE of a SELECT over contents keeps
MatchAll(d, s) ==
    {id \in DOMAIN d.parents :
        \A i \in DOMAIN s.whereCols :
            /\ s.whereCols[i] = "title ILIKE" =>
                  /\ d.parents[id]["title"] # Null
                  /\ ILike(d.parents[id]["title"], s.params[s.whereIdx[i]])
            /\ s.whereCols[i] \in Columns =>
                  d.parents[id][s.whereCols[i]] = s.params[s.whereIdx[i]]}

\* ORDER BY date_published: ascending text order, NULL last
DateBefore(a, b) == a # Null /\ (b = Null \/ a[1] < b[1])

\* the orders the server may return the rows in
Orderings(d, ids) ==
    {o \in [1..Cardinality(ids) -> ids] :
        /\ \A i, j \in DOMAIN o : i # j => o[i] # o[j]
        /\ \A i, j \in DOMAIN o :
              i < j => ~DateBefore(d.parents[o[j]]["date_published"],
                                   d.parents[o[i]]["date_published"])}

GetAllStart(c) ==
    /\ call[c].pc = "idle"
    /\ \E q \in QueryObjects :
        LET left == IF q[1] = "object" THEN <<"object", WrapTitle(q[2])>> ELSE q
        IN  /\ call' = [call EXCEPT ![c] =
                  [Sent(@, <<SelectAll(c, left)>>) EXCEPT
                      !.pc = "list",
                      !.op = [NoOp EXCEPT !.name = "getAll", !.query = q,
                                          !.queryObject = left]]]
            /\ queue' = Append(queue, SelectAll(c, left))
    /\ UNCHANGED <<db, fails>>

GetAllAck(c) ==
    /\ Answering(c, "SELECT_ALL")
    /\ queue' = Tail(queue)
    /\ db' = db
    /\ \E ok \in BOOLEAN :
        /\ Answer(Head(queue), ok)
        /\ IF ok
           THEN LET ids == MatchAll(db, Head(queue))
                IN  \E o \in Orderings(db, ids) :
                        call' = [call EXCEPT ![c] =
                            [Finished(@, "returned",
                                [i \in DOMAIN o |->
                                    QUERY_GENERAL_PROPERTIES(o[i], db.parents[o[i]])])
                             EXCEPT !.dirty = PartialRead(db, ids)]]
           ELSE call' = [call EXCEPT ![c] =
                    Finished(Rejected(@, "SELECT_ALL"), "DbError", <<>>)]

Next ==
    \E c \in Calls :
        \/ CreateStart(c)
        \/ CreateBeginAck(c)
        \/ CreateInsertAck(c)
        \/ CreateJoinAck(c)
        \/ CreateCommitAck(c)
        \/ CreateRollbackAck(c)
        \/ GetAllStart(c)
        \/ GetAllAck(c)
        \/ GetByPKStart(c)
        \/ GetByPKAck(c)
        \/ GetByPKPrivateStart(c)
        \/ GetByPKPrivateAck(c)
        \/ UpdateStart(c)
        \/ UpdateExistsAck(c)
        \/ UpdateAck(c)
        \/ DeleteStart(c)
        \/ DeleteAck(c)

Spec == Init /\ [][Next]_vars

----------------------------------------------------------------------------
(* Properties of Content.create *)

IsCreate(c) == call[c].op.name = "create"

Done(c) == call[c].pc = "done"

Raised(c) == Done(c) /\ call[c].outcome # "returned"

SpanKinds == {"BEGIN", "INSERT", "INSERT_JOIN", "COMMIT"}

Outstanding(c) == {i \in DOMAIN queue : queue[i].call = c}

\* C1: when the parent INSERT of a create call succeeded and one of its join
\* INSERTs failed, the call ends by raising and the parent row it inserted is
\* not among the stored rows (a later list() does not show it).
C1_CreateAtomic ==
    \A c \in Calls :
        (IsCreate(c) /\ Done(c) /\ call[c].newId # 0
            /\ "INSERT_JOIN" \in call[c].failed)
        => /\ Raised(c)
           /\ call[c].newId \notin DOMAIN db.parents

\* C2: a create call has at most one statement outstanding at the handle
\* (each is acknowledged before the next is issued), COMMIT is never
\* outstanding together with a join INSERT of the call, and a call in which a
\* statement of the span failed has sent ROLLBACK last, not COMMIT.
C2_StrictProgramOrder ==
    \A c \in Calls :
        IsCreate(c) =>
            /\ Cardinality(Outstanding(c)) <= 1
            /\ \A i, j \in Outstanding(c) :
                  ~(queue[i].kind = "INSERT_JOIN" /\ queue[j].kind = "COMMIT")
            /\ (Done(c) /\ call[c].failed \cap SpanKinds # {})
                  => call[c].issued[Len(call[c].issued)] = "ROLLBACK"

\* C3: no operation reads the parent row of a create while join INSERTs of
\* that create are outstanding, a create that returned has its parent row
\* durable, and a create that raised has no durable parent row: the COMMIT or
\* ROLLBACK of one call never commits or discards the statements of another.
C3_AllOrNothingVisibility ==
    \A c \in Calls :
        /\ ~call[c].dirty
        /\ (IsCreate(c) /\ Done(c) /\ call[c].newId # 0) =>
              (call[c].outcome = "returned"
                  <=> call[c].newId \in DOMAIN Durable(db).parents)

\* C4: after a create that returned with every statement accepted, each
\* entry u of the association list has the join row (u, id of the new parent
\* row), and one join INSERT was sent per entry.
C4_JoinRowPerAssociation ==
    \A c \in Calls :
        (IsCreate(c) /\ Done(c) /\ call[c].outcome = "returned"
            /\ call[c].failed = {} /\ call[c].op.ntom[1] = "list")
        => LET list == call[c].op.ntom[2]
           IN  /\ \A i \in DOMAIN list :
                     [user_id |-> list[i],
                      content_id |-> IdText(call[c].newId)] \in db.joins
               /\ Cardinality({i \in DOMAIN call[c].issued :
                                  call[c].issued[i] = "INSERT_JOIN"}) = Len(list)

\* C5: a create called with a record that has no signing list and with no
\* association list, every statement accepted, sends BEGIN, the parent INSERT
\* and COMMIT, and returns the new parent row.
C5_CreateWithoutAssociations ==
    \A c \in Calls :
        (IsCreate(c) /\ Done(c) /\ call[c].failed = {}
            /\ call[c].op.ntom[1] = "undefined"
            /\ "contractSigned" \notin Keys(call[c].op.rec))
        => /\ call[c].outcome = "returned"
           /\ call[c].issued = <<"BEGIN", "INSERT", "COMMIT">>
           /\ Len(call[c].ret) = 1

\* C6: a create in which BEGIN, the parent INSERT, a join INSERT or COMMIT
\* failed has sent ROLLBACK and raises ERR_MULT_NEW_REC_DBFAIL, never the
\* database error.
C6_GenericCreationError ==
    \A c \in Calls :
        (IsCreate(c) /\ Done(c) /\ call[c].failed \cap SpanKinds # {})
        => /\ call[c].outcome = "ERR_MULT_NEW_REC_DBFAIL"
           /\ \E i \in DOMAIN call[c].issued : call[c].issued[i] = "ROLLBACK"

----------------------------------------------------------------------------
(* Properties of Content.getByPK, Content.update and Content.delete *)

NoStoredRow(pk) == \A id \in DOMAIN db.parents : IdText(id) # pk

\* the step in which the handle answers the statement of kind that call c
\* is waiting for
AnswerStep(c, kind) == Answering(c, kind) /\ call'[c] # call[c]

\* C7: when the SELECT of getByPK runs for a key with no stored parent row,
\* the call (getByPK itself, or update through it) ends with NotFound, the
\* stored rows are unchanged, and the call has no statement left at the
\* handle; a call that ended so never sent an UPDATE.
C7_NotFoundBeforeUpdate ==
    [][\A c \in Calls :
        /\ (AnswerStep(c, "SELECT_PK") /\ NoStoredRow(call[c].op.pk)
               /\ "SELECT_PK" \notin call'[c].failed)
           => /\ call'[c].pc = "done"
              /\ call'[c].outcome = "NotFound"
              /\ db' = db
              /\ \A i \in DOMAIN queue' : queue'[i].call # c
        /\ (call[c].outcome = "NotFound"
               /\ call[c].op.name \in {"getByPK", "update"})
           => \A i \in DOMAIN call[c].issued : call[c].issued[i] # "UPDATE"]_vars

C7_Witness ==
    \E c \in Calls :
        /\ call[c].op.name = "update"
        /\ call[c].op.rec # <<>>
        /\ call[c].absent
        /\ call[c].outcome = "NotFound"

SetColumns(rec) ==
    {ColumnOf(rec[i][1], JSON_SQL_SET_MAPPING) : i \in DOMAIN rec}

\* C8: the UPDATE of update(pk, rec) leaves every join row, every other
\* parent row and every column of row pk that rec does not name as they were;
\* when it returns, the columns rec names hold rec's values and the returned
\* row is the general projection of the stored row, its fields outside rec
\* equal to their values before the UPDATE.
C8_PartialUpdateFrame ==
    [][\A c \in Calls :
        AnswerStep(c, "UPDATE") =>
            LET pk == call[c].op.pk
                rec == call[c].op.rec
            IN  /\ DOMAIN db'.parents = DOMAIN db.parents
                /\ db'.joins = db.joins
                /\ \A id \in DOMAIN db.parents : \A col \in Columns :
                      (IdText(id) # pk \/ col \notin SetColumns(rec))
                          => db'.parents[id][col] = db.parents[id][col]
                /\ (call'[c].outcome = "returned" /\ ~NoStoredRow(pk)) =>
                      \A id \in DOMAIN db.parents :
                          IdText(id) = pk =>
                              /\ \A i \in DOMAIN rec :
                                    db'.parents[id][ColumnOf(rec[i][1],
                                        JSON_SQL_SET_MAPPING)]
                                      = BindText(rec[i][1], rec[i][2])
                              /\ call'[c].ret
                                   = <<QUERY_GENERAL_PROPERTIES(id, db'.parents[id])>>
                              /\ "title" \notin Keys(rec) =>
                                    call'[c].ret[1].title = db.parents[id]["title"]
                              /\ "datePublished" \notin Keys(rec) =>
                                    call'[c].ret[1].datePublished
                                      = db.parents[id]["date_published"]]_vars

C8_Witness ==
    \E c \in Calls :
        /\ call[c].op.name = "update"
        /\ call[c].outcome = "returned"
        /\ call[c].op.rec = << <<"title", <<12>> >> >>
        /\ call[c].op.pk = IdText(1)
        /\ call[c].ret = <<[id |-> IdText(1), title |-> <<12>>,
                            datePublished |-> <<1>>]>>

\* C9: in every UPDATE statement at the handle, for a partial record of n
\* fields, the SET placeholders are $1..$n in key order, the placeholder of
\* the key is $(n+1), and the parameters are the n SET values in the same
\* order followed by the key, as many as there are distinct placeholders.
C9_PlaceholdersMatchParameters ==
    \A q \in DOMAIN queue :
        queue[q].kind = "UPDATE" =>
            LET s == queue[q]
                rec == call[s.call].op.rec
                n == Len(rec)
            IN  /\ s.idx = [k \in 1..n |-> k]
                /\ s.whereIdx = <<n + 1>>
                /\ Len(s.params) = n + 1
                /\ \A k \in 1..n :
                      /\ s.cols[k] = ColumnOf(rec[k][1], JSON_SQL_SET_MAPPING)
                      /\ s.params[s.idx[k]] = BindText(rec[k][1], rec[k][2])
                /\ s.params[s.whereIdx[1]] = call[s.call].op.pk
                /\ Cardinality(Placeholders(s)) = Len(s.params)

C9_Witness ==
    \E q \in DOMAIN queue :
        /\ queue[q].kind = "UPDATE"
        /\ Len(queue[q].params) = 3

TargetJoin(c) ==
    [user_id |-> call[c].op.username, content_id |-> call[c].op.pk]

----------------------------------------------------------------------------
(* Properties of the error contract *)

\* C11: when the DELETE of delete(pk, username) runs while no join row
\* (username, pk) is stored, the call raises NotFound and the stored rows are
\* unchanged; so does a second delete after a first one removed the row.
C11_DeleteNotFound ==
    [][\A c \in Calls :
        (AnswerStep(c, "DELETE_JOIN") /\ TargetJoin(c) \notin db.joins
            /\ "DELETE_JOIN" \notin call'[c].failed)
        => /\ call'[c].outcome = "NotFound"
           /\ db' = db]_vars

----------------------------------------------------------------------------
(* Properties of the projections *)

GeneralFields == {"id", "title", "datePublished"}

PrivateColumns == {"status", "contract_signed"}

\* the session with every private column of every parent row blanked
Scrub(d) ==
    [d EXCEPT !.parents =
        [id \in DOMAIN d.parents |->
            [col \in Columns |-> IF col \in PrivateColumns THEN Null
                                 ELSE d.parents[id][col]]]]

GeneralRows(d, ids) ==
    {<<QUERY_GENERAL_PROPERTIES(id, d.parents[id])>> : id \in ids}

ListResults(d, s) ==
    {[i \in DOMAIN o |-> QUERY_GENERAL_PROPERTIES(o[i], d.parents[o[i]])] :
        o \in Orderings(d, MatchAll(d, s))}

NamesPrivate(q) ==
    /\ q[1] = "object"
    /\ \E k \in Keys(q[2]) : k \notin GeneralFields

\* what call c gets back in this step is what it would get back from the
\* rows with their private columns blanked (list: for the filters in scope)
SameWithoutPrivate(c, anyFilter) ==
    /\ (call'[c] # call[c] /\ call'[c].outcome = "returned"
           /\ call[c].op.name \in {"create", "getAll", "getByPK", "update"})
       => \A i \in DOMAIN call'[c].ret : DOMAIN call'[c].ret[i] = GeneralFields
    /\ (AnswerStep(c, "SELECT_ALL") /\ call'[c].outcome = "returned"
           /\ (anyFilter \/ ~NamesPrivate(call[c].op.query)))
       => call'[c].ret \in ListResults(Scrub(db), Head(queue))
    /\ (AnswerStep(c, "SELECT_PK") /\ call[c].op.name = "getByPK"
           /\ call'[c].outcome = "returned")
       => call'[c].ret \in GeneralRows(Scrub(db), MatchIds(Scrub(db), Head(queue)))
    /\ (AnswerStep(c, "UPDATE") /\ call'[c].outcome = "returned"
           /\ call'[c].ret # <<>>)
       => call'[c].ret \in GeneralRows(DbUpdate(Scrub(db), Head(queue)),
                                       MatchIds(Scrub(db), Head(queue)))
    /\ (AnswerStep(c, "INSERT") /\ call'[c].newId # 0)
       => call'[c].ret \in GeneralRows(DbInsert(Scrub(db), Head(queue)),
                                       {call'[c].newId})

\* C12: the rows create, list, getByPK and update hand back have the general
\* fields only, and each of these results is the one the operation would have
\* produced had the private columns of the stored rows held other values.
C12_PrivateFieldsNeverInfluence ==
    [][\A c \in Calls : SameWithoutPrivate(c, TRUE)]_vars

\* C12 (amended): as above, for list only when its filter names no private
\* field.
C12_PrivateFieldsNotReturned ==
    [][\A c \in Calls : SameWithoutPrivate(c, FALSE)]_vars

C12_Witness ==
    \E c \in Calls :
        /\ call[c].op.name = "getAll"
        /\ call[c].outcome = "returned"
        /\ call[c].op.query = <<"object", << <<"title", <<11>> >> >> >>
        /\ Len(call[c].ret) >= 1
        /\ \E id \in DOMAIN db.parents : db.parents[id]["status"] # Null

----------------------------------------------------------------------------
(* Properties of Content.getAll *)

RowIds(rows) == {rows[i].id : i \in DOMAIN rows}

NoFilter(q) == q = <<"undefined">> \/ q = <<"object", <<>> >>

\* C13: the SELECT of list(undefined) and of list({}) has no WHERE clause and
\* no parameter, and when the handle accepts it the call returns every stored
\* parent row once: the two calls return the same row set.
C13_AbsentOrEmptyFilter ==
    [][\A c \in Calls :
        (AnswerStep(c, "SELECT_ALL") /\ NoFilter(call[c].op.query))
        => /\ Head(queue).whereCols = <<>>
           /\ Head(queue).params = <<>>
           /\ "SELECT_ALL" \notin call'[c].failed
              => /\ call'[c].outcome = "returned"
                 /\ RowIds(call'[c].ret) = {IdText(id) : id \in DOMAIN db.parents}
                 /\ Len(call'[c].ret) = Cardinality(DOMAIN db.parents)]_vars

C13_Witness ==
    \E c, d \in Calls :
        /\ call[c].op.name = "getAll" /\ call[c].op.query = <<"undefined">>
        /\ call[d].op.name = "getAll" /\ call[d].op.query = <<"object", <<>> >>
        /\ call[c].outcome = "returned" /\ call[d].outcome = "returned"
        /\ RowIds(call[c].ret) = RowIds(call[d].ret)
        /\ Len(call[c].ret) = 2

\* text contains t, letter case ignored
Contains(text, t) ==
    \E i \in 0..(Len(text) - Len(t)) :
        \A k \in 1..Len(t) : Fold(text[i + k]) = Fold(t[k])

TitleFilter(q) ==
    /\ q[1] = "object"
    /\ Keys(q[2]) = {"title"}

\* C14: the SELECT of list({title: t}) binds t wrapped in wildcard markers,
\* and when the handle accepts it the call returns, ordered by publish date,
\* exactly the parent rows whose title contains t without regard to case (an
\* empty sequence when there is none).
C14_TitleContains ==
    [][\A c \in Calls :
        (AnswerStep(c, "SELECT_ALL") /\ TitleFilter(call[c].op.query))
        => LET t == ValueOf(call[c].op.query[2], "title")
           IN  /\ Head(queue).params = << <<Percent>> \o t \o <<Percent>> >>
               /\ "SELECT_ALL" \notin call'[c].failed
                  => /\ call'[c].outcome = "returned"
                     /\ RowIds(call'[c].ret)
                          = {IdText(id) : id \in
                               {i \in DOMAIN db.parents :
                                   /\ db.parents[i]["title"] # Null
                                   /\ Contains(db.parents[i]["title"], t)}}
                     /\ \A i, j \in DOMAIN call'[c].ret :
                           i < j => ~DateBefore(call'[c].ret[j].datePublished,
                                                call'[c].ret[i].datePublished)]_vars

----------------------------------------------------------------------------
(* Properties of the outcomes and of concurrent calls *)

\* C15: every call that has ended returned its rows, raised NotFound, or
\* raised the request-failed error; no other error reaches the caller.
C15_ThreeOutcomes ==
    \A c \in Calls :
        Done(c) =>
            call[c].outcome \in {"returned", "NotFound", "ERR_MULT_NEW_REC_DBFAIL"}

\* the value rec gives to column col
SetValue(rec, col) ==
    LET i == CHOOSE k \in DOMAIN rec :
                 ColumnOf(rec[k][1], JSON_SQL_SET_MAPPING) = col
    IN  BindText(rec[i][1], rec[i][2])

BothUpdate(c, d) ==
    /\ c # d
    /\ call[c].op.name = "update"
    /\ call[d].op.name = "update"
    /\ call[c].op.pk = call[d].op.pk

\* C16: of two update calls on the same stored identity, when the UPDATE of
\* the second is accepted after the first has returned its row, the second
\* returns too (no conflict error), every column it names holds its value and
\* every column only the first names keeps the first's value.
C16_LastWriteWins ==
    [][\A c, d \in Calls :
        (BothUpdate(c, d) /\ AnswerStep(c, "UPDATE")
            /\ "UPDATE" \notin call'[c].failed
            /\ call[d].outcome = "returned" /\ call[d].ret # <<>>
            /\ ~NoStoredRow(call[c].op.pk))
        => /\ call'[c].outcome = "returned"
           /\ call'[c].ret # <<>>
           /\ \A id \in DOMAIN db.parents : \A col \in Columns :
                 IdText(id) = call[c].op.pk =>
                     /\ col \in SetColumns(call[c].op.rec) =>
                           db'.parents[id][col] = SetValue(call[c].op.rec, col)
                     /\ col \in SetColumns(call[d].op.rec)
                                  \ SetColumns(call[c].op.rec) =>
                           db'.parents[id][col] = SetValue(call[d].op.rec, col)]_vars

\* both calls have passed the existence check and both UPDATEs are at the
\* handle, setting the same column to different values
C16_Witness ==
    \E c, d \in Calls :
        /\ BothUpdate(c, d)
        /\ Len(queue) = 2
        /\ queue[1].kind = "UPDATE" /\ queue[1].call = c
        /\ queue[2].kind = "UPDATE" /\ queue[2].call = d
        /\ call[c].op.rec = << <<"title", <<12>> >>, <<"status", <<31>> >> >>
        /\ call[d].op.rec = << <<"title", <<13>> >> >>

Count(seq, kind) == Cardinality({i \in DOMAIN seq : seq[i] = kind})

Has(seq, kind) == Count(seq, kind) > 0

Committed(c) == Has(call[c].issued, "COMMIT") /\ "COMMIT" \notin call[c].failed

\* how a create call ends its transaction; everyEnd: ROLLBACK too, not only
\* COMMIT, is bound to a BEGIN that succeeded
EndsOnce(c, everyEnd) ==
    /\ Count(call[c].issued, "COMMIT") <= 1
    /\ Count(call[c].issued, "ROLLBACK") <= 1
    /\ (Done(c) /\ call[c].outcome = "returned")
          => /\ Committed(c)
             /\ ~Has(call[c].issued, "ROLLBACK")
             /\ Len(call[c].ret) = 1
    /\ Raised(c)
          => /\ Has(call[c].issued, "ROLLBACK")
             /\ ~Committed(c)
    /\ (Has(call[c].issued, "COMMIT")
           \/ (everyEnd /\ Has(call[c].issued, "ROLLBACK")))
          => /\ call[c].pc # "begin"
             /\ "BEGIN" \notin call[c].failed

\* C17: a create call sends COMMIT at most once and ROLLBACK at most once; it
\* returns its row only after its COMMIT succeeded and without having sent
\* ROLLBACK, it raises only after having sent ROLLBACK and never after a
\* COMMIT that succeeded, and it sends neither COMMIT nor ROLLBACK unless its
\* BEGIN succeeded.
C17_EndsTransactionOnce ==
    \A c \in Calls : IsCreate(c) => EndsOnce(c, TRUE)

\* C17 (amended): as above, except that only COMMIT is bound to a BEGIN that
\* succeeded: ROLLBACK is sent also when the BEGIN itself failed.
C17_EndsTransactionOnceCommit ==
    \A c \in Calls : IsCreate(c) => EndsOnce(c, FALSE)

C17_Witness ==
    \E c, d \in Calls :
        /\ IsCreate(c) /\ Done(c) /\ call[c].outcome = "returned"
        /\ call[c].issued = <<"BEGIN", "INSERT", "COMMIT">>
        /\ IsCreate(d) /\ Raised(d)
        /\ call[d].issued = <<"BEGIN", "INSERT", "COMMIT", "ROLLBACK">>
        /\ call[d].failed = {"COMMIT"}

\* C18: no step removes a durable parent row, and an update with a non-empty
\* partial record that returns (its existence check passed) hands back a
\* row, never undefined.
C18_ParentsNeverShrink ==
    [][/\ DOMAIN Durable(db).parents \subseteq DOMAIN Durable(db').parents
       /\ \A c \in Calls :
             (call[c].op.name = "update" /\ call[c].op.rec # <<>>
                 /\ call'[c].pc = "done" /\ call'[c].outcome = "returned")
             => call'[c].ret # <<>>]_vars

\* C19: the filter object a list call was given is, once the call has sent
\* its SELECT and ever after, as the caller passed it (its title unchanged).
C19_FilterUnchanged ==
    \A c \in Calls :
        call[c].op.name = "getAll" => call[c].op.queryObject = call[c].op.query

====
